---- MODULE Spec2Model ----
(***************************************************************************)
(* Weather API server: the /weather handler (internal/handler/weather.go), *)
(* the OpenWeatherMap client (internal/service/weather_service.go) and the *)
(* server host with its shutdown protocol (main.go).                       *)
(*                                                                         *)
(* Strings that the code inspects character by character (the lat and lon  *)
(* query values) are sequences of one-character strings.  A float64 is a   *)
(* record [k, neg, ip, fp]: k is "num", "inf" or "nan"; a "num" is the     *)
(* sign-magnitude decimal ip + fp / 10^FracDigits.  The precision is       *)
(* FracDigits decimal places where float64 has 53 bits; a magnitude of     *)
(* HugeIp or more is kept as HugeIp.                                       *)
(***************************************************************************)
EXTENDS Integers, Sequences, FiniteSets, TLC

(* ------------------------------ bounds --------------------------------- *)

\* Number of request slots (connections the server may accept in one run).
NumReq == 2

\* Largest value drawn for APP_SERVER_CLIENT_TIMEOUT_SEC.
MaxClientTimeoutSec == 2

\* Largest value drawn for APP_SERVER_SHUTDOWN_TIMEOUT_SEC.
MaxShutdownTimeoutSec == 2

\* Decimal places the float64 model keeps.
FracDigits == 7

\* Decimal digits of the integer part the float64 model keeps exactly.
IntDigits == 8

(* ----------------------------- float64 --------------------------------- *)

RECURSIVE Pow10(_)
Pow10(n) == IF n <= 0 THEN 1 ELSE 10 * Pow10(n - 1)

FracUnit == Pow10(FracDigits)
HugeIp == Pow10(IntDigits)

Num(neg, ip, fp) == [k |-> "num", neg |-> neg, ip |-> ip, fp |-> fp]
NaN == [k |-> "nan", neg |-> FALSE, ip |-> 0, fp |-> 0]
Inf(neg) == [k |-> "inf", neg |-> neg, ip |-> 0, fp |-> 0]
FromInt(n) == IF n < 0 THEN Num(TRUE, -n, 0) ELSE Num(FALSE, n, 0)

\* Magnitude order of two "num" values.
MagLess(a, b) == a.ip < b.ip \/ (a.ip = b.ip /\ a.fp < b.fp)
IsZero(a) == a.k = "num" /\ a.ip = 0 /\ a.fp = 0

\* The float64 operator < : false whenever an operand is NaN; -0 = +0.
FLess(a, b) ==
    CASE a.k = "nan" \/ b.k = "nan" -> FALSE
      [] a.k = "inf" /\ b.k = "inf" -> a.neg /\ ~b.neg
      [] a.k = "inf" -> a.neg
      [] b.k = "inf" -> ~b.neg
      [] OTHER ->
            IF IsZero(a) /\ IsZero(b) THEN FALSE
            ELSE IF a.neg /\ ~b.neg THEN TRUE
            ELSE IF ~a.neg /\ b.neg THEN FALSE
            ELSE IF a.neg THEN MagLess(b, a)
            ELSE MagLess(a, b)

\* The float64 operator > .
FGreater(a, b) == FLess(b, a)

\* The float64 operator <= (not the negation of >: false on NaN).
FLeq(a, b) ==
    /\ a.k # "nan"
    /\ b.k # "nan"
    /\ ~FLess(b, a)

(* ------------------------- strconv.ParseFloat -------------------------- *)

Digits == {"0", "1", "2", "3", "4", "5", "6", "7", "8", "9"}

DigitOf(c) ==
    CASE c = "0" -> 0 [] c = "1" -> 1 [] c = "2" -> 2 [] c = "3" -> 3
      [] c = "4" -> 4 [] c = "5" -> 5 [] c = "6" -> 6 [] c = "7" -> 7
      [] c = "8" -> 8 [] c = "9" -> 9

CharOf(d) ==
    CASE d = 0 -> "0" [] d = 1 -> "1" [] d = 2 -> "2" [] d = 3 -> "3"
      [] d = 4 -> "4" [] d = 5 -> "5" [] d = 6 -> "6" [] d = 7 -> "7"
      [] d = 8 -> "8" [] d = 9 -> "9"

\* ASCII lower-casing of the letters the parser looks at.
Lower(c) ==
    CASE c = "I" -> "i" [] c = "N" -> "n" [] c = "F" -> "f" [] c = "A" -> "a"
      [] c = "T" -> "t" [] c = "Y" -> "y" [] c = "E" -> "e" [] OTHER -> c

RECURSIVE CommonPrefixLenIgnoreCase(_, _, _)
CommonPrefixLenIgnoreCase(s, prefix, i) ==
    IF i <= Len(s) /\ i <= Len(prefix) /\ Lower(s[i]) = prefix[i]
    THEN CommonPrefixLenIgnoreCase(s, prefix, i + 1)
    ELSE i - 1

Infinity == <<"i", "n", "f", "i", "n", "i", "t", "y">>
Nan == <<"n", "a", "n">>

\* strconv.special: an optionally signed "inf"/"infinity", or an unsigned
\* "nan", in any letter case.  n is the number of characters consumed.
Special(s) ==
    LET none == [ok |-> FALSE, val |-> NaN, n |-> 0]
        infOf(t, neg, nsign) ==
            LET n0 == CommonPrefixLenIgnoreCase(t, Infinity, 1)
                n == IF 3 < n0 /\ n0 < 8 THEN 3 ELSE n0
            IN  IF n = 3 \/ n = 8
                THEN [ok |-> TRUE, val |-> Inf(neg), n |-> nsign + n]
                ELSE none
    IN  IF Len(s) = 0 THEN none
        ELSE IF s[1] \in {"+", "-"} THEN infOf(Tail(s), s[1] = "-", 1)
        ELSE IF s[1] \in {"i", "I"} THEN infOf(s, FALSE, 0)
        ELSE IF s[1] \in {"n", "N"}
             THEN IF CommonPrefixLenIgnoreCase(s, Nan, 1) = 3
                  THEN [ok |-> TRUE, val |-> NaN, n |-> 3]
                  ELSE none
        ELSE none

\* Index of the first character at or after i that is not a digit.
RECURSIVE ScanDigits(_, _)
ScanDigits(s, i) ==
    IF i <= Len(s) /\ s[i] \in Digits THEN ScanDigits(s, i + 1) ELSE i

\* Value of the digit characters s[i..j-1], capped as readFloat caps the
\* exponent (no further digit is added once the value reaches 10000).
RECURSIVE DigitsVal(_, _, _, _)
DigitsVal(s, i, j, acc) ==
    IF i >= j THEN acc
    ELSE DigitsVal(s, i + 1, j, IF acc < 10000 THEN acc * 10 + DigitOf(s[i]) ELSE acc)

\* The digit characters s[i..j-1] as a sequence of numbers.
DigitSeq(s, i, j) == [n \in 1..(j - i) |-> DigitOf(s[i + n - 1])]

RECURSIVE LeadingZeros(_, _)
LeadingZeros(ds, i) ==
    IF i <= Len(ds) /\ ds[i] = 0 THEN LeadingZeros(ds, i + 1) ELSE i - 1

\* Value of the digits ds[from..to] read as one decimal number; positions
\* outside ds count as 0.
RECURSIVE DigitRange(_, _, _, _)
DigitRange(ds, from, to, acc) ==
    IF from > to THEN acc
    ELSE DigitRange(ds, from + 1, to,
                    acc * 10 + (IF from >= 1 /\ from <= Len(ds) THEN ds[from] ELSE 0))

\* Largest decimal exponent of a finite float64 (1.797e308).
MaxExp10 == 309

\* The float64 nearest to 0.d1d2d3... x 10^p: [ok, val]; ok is FALSE when the
\* value is out of float64's range (strconv.ErrRange).
Decimal(neg, ds0, p0) ==
    LET z == LeadingZeros(ds0, 1)
        ds == SubSeq(ds0, z + 1, Len(ds0))
        p == p0 - z
    IN  IF Len(ds) = 0 THEN [ok |-> TRUE, val |-> Num(neg, 0, 0)]
        ELSE IF p > MaxExp10 THEN [ok |-> FALSE, val |-> Inf(neg)]
        ELSE IF p > IntDigits THEN [ok |-> TRUE, val |-> Num(neg, HugeIp, 0)]
        ELSE IF p < -FracDigits THEN [ok |-> TRUE, val |-> Num(neg, 0, 0)]
        ELSE
            LET ip == DigitRange(ds, 1, p, 0)
                fp == DigitRange(ds, p + 1, p + FracDigits, 0)
                nx == DigitRange(ds, p + FracDigits + 1, p + FracDigits + 1, 0)
                fp1 == IF nx >= 5 THEN fp + 1 ELSE fp
            IN  IF fp1 >= FracUnit
                THEN [ok |-> TRUE, val |-> Num(neg, ip + 1, 0)]
                ELSE [ok |-> TRUE, val |-> Num(neg, ip, fp1)]

\* strconv.readFloat and the conversion, for decimal input: sign, digits
\* with at most one '.', an optional exponent.  n is the number of
\* characters consumed; ok is FALSE on a syntax error.
ReadFloat(s) ==
    LET bad == [ok |-> FALSE, range |-> FALSE, val |-> NaN, n |-> 0]
        i1 == IF Len(s) >= 1 /\ s[1] \in {"+", "-"} THEN 2 ELSE 1
        neg == Len(s) >= 1 /\ s[1] = "-"
        i2 == ScanDigits(s, i1)
        hasDot == i2 <= Len(s) /\ s[i2] = "."
        i3 == IF hasDot THEN ScanDigits(s, i2 + 1) ELSE i2
        sawdigits == i2 > i1 \/ (hasDot /\ i3 > i2 + 1)
        ds == DigitSeq(s, i1, i2) \o (IF hasDot THEN DigitSeq(s, i2 + 1, i3) ELSE <<>>)
        hasExp == i3 <= Len(s) /\ Lower(s[i3]) = "e"
        i4 == i3 + 1
        i5 == IF i4 <= Len(s) /\ s[i4] \in {"+", "-"} THEN i4 + 1 ELSE i4
        eneg == i4 <= Len(s) /\ s[i4] = "-"
        i6 == ScanDigits(s, i5)
        e == DigitsVal(s, i5, i6, 0)
        finish(p, n) ==
            LET d == Decimal(neg, ds, p)
            IN  [ok |-> TRUE, range |-> ~d.ok, val |-> d.val, n |-> n]
    IN  IF Len(s) = 0 \/ ~sawdigits THEN bad
        ELSE IF ~hasExp THEN finish(i2 - i1, i3 - 1)
        ELSE IF i4 > Len(s) \/ i6 = i5 THEN bad
        ELSE finish((i2 - i1) + (IF eneg THEN -e ELSE e), i6 - 1)

\* strconv.ParseFloat(s, 64) given what special and readFloat make of s.
ParseFloatFrom(s, sp, rf) ==
    IF sp.ok
    THEN IF sp.n = Len(s) THEN [ok |-> TRUE, val |-> sp.val] ELSE [ok |-> FALSE, val |-> NaN]
    ELSE IF rf.ok /\ rf.n = Len(s) /\ ~rf.range
         THEN [ok |-> TRUE, val |-> rf.val]
         ELSE [ok |-> FALSE, val |-> NaN]

\* strconv.ParseFloat(s, 64): [ok, val].  ok is FALSE on a syntax error, on
\* characters left over and on a value out of range.
ParseFloat(s) == ParseFloatFrom(s, Special(s), ReadFloat(s))

(* ----------------------------- fmt "%.4f" ------------------------------ *)

RECURSIVE NatChars(_)
NatChars(n) == IF n < 10 THEN <<CharOf(n)>> ELSE NatChars(n \div 10) \o <<CharOf(n % 10)>>

\* n as exactly w digit characters (n < 10^w).
RECURSIVE PadChars(_, _)
PadChars(n, w) == IF w = 0 THEN <<>> ELSE PadChars(n \div 10, w - 1) \o <<CharOf(n % 10)>>

\* fmt's %.4f of a float64.
FormatF4(v) ==
    CASE v.k = "nan" -> <<"N", "a", "N">>
      [] v.k = "inf" -> <<(IF v.neg THEN "-" ELSE "+"), "I", "n", "f">>
      [] OTHER ->
            LET cut == Pow10(FracDigits - 4)
                r == (v.fp + (cut \div 2)) \div cut
                carry == r >= 10000
                ip == IF carry THEN v.ip + 1 ELSE v.ip
                fr == IF carry THEN 0 ELSE r
            IN  (IF v.neg THEN <<"-">> ELSE <<>>) \o NatChars(ip) \o <<".">> \o PadChars(fr, 4)

(* ------------------- handler: internal/handler/weather.go -------------- *)

\* A formatted message: the fixed text followed by the formatted argument.
Msg(text, arg) == [text |-> text, arg |-> arg]

\* r.URL.Query().Get(key): the value of the parameter, "" when it is absent.
Get(query, key) == IF key \in DOMAIN query THEN query[key] ELSE <<>>

\* Faulty variant of Validate: the bounds themselves rejected.
ValidateStrict(latStr, lonStr, plat, plon) ==
    LET fail(m) == [err |-> TRUE, msg |-> m, lat |-> FromInt(0), lon |-> FromInt(0)]
    IN  IF latStr = <<>> \/ lonStr = <<>>
        THEN fail(Msg("lat and lon query parameters are required", <<>>))
        ELSE IF ~plat.ok THEN fail(Msg("invalid latitude value: ", latStr))
        ELSE IF ~plon.ok THEN fail(Msg("invalid longitude value: ", lonStr))
        ELSE IF FLeq(plat.val, FromInt(-90)) \/ FLeq(FromInt(90), plat.val)
        THEN fail(Msg("latitude must be between -90 and 90, got: ", FormatF4(plat.val)))
        ELSE IF FLeq(plon.val, FromInt(-180)) \/ FLeq(FromInt(180), plon.val)
        THEN fail(Msg("longitude must be between -180 and 180, got: ", FormatF4(plon.val)))
        ELSE [err |-> FALSE, msg |-> Msg("", <<>>), lat |-> plat.val, lon |-> plon.val]

\* Faulty variant of Validate: the longitude checked before the latitude.
ValidateReordered(latStr, lonStr, plat, plon) ==
    LET fail(m) == [err |-> TRUE, msg |-> m, lat |-> FromInt(0), lon |-> FromInt(0)]
    IN  IF latStr = <<>> \/ lonStr = <<>>
        THEN fail(Msg("lat and lon query parameters are required", <<>>))
        ELSE IF ~plon.ok THEN fail(Msg("invalid longitude value: ", lonStr))
        ELSE IF ~plat.ok THEN fail(Msg("invalid latitude value: ", latStr))
        ELSE IF FLess(plon.val, FromInt(-180)) \/ FGreater(plon.val, FromInt(180))
        THEN fail(Msg("longitude must be between -180 and 180, got: ", FormatF4(plon.val)))
        ELSE IF FLess(plat.val, FromInt(-90)) \/ FGreater(plat.val, FromInt(90))
        THEN fail(Msg("latitude must be between -90 and 90, got: ", FormatF4(plat.val)))
        ELSE [err |-> FALSE, msg |-> Msg("", <<>>), lat |-> plat.val, lon |-> plon.val]

\* The checks of parseCoordinates on the two raw values and on what
\* strconv.ParseFloat makes of each: [err, msg, lat, lon].
Validate(latStr, lonStr, plat, plon) ==
    LET fail(m) == [err |-> TRUE, msg |-> m, lat |-> FromInt(0), lon |-> FromInt(0)]
    IN  IF latStr = <<>> \/ lonStr = <<>>
        THEN fail(Msg("lat and lon query parameters are required", <<>>))
        ELSE IF ~plat.ok THEN fail(Msg("invalid latitude value: ", latStr))
        ELSE IF ~plon.ok THEN fail(Msg("invalid longitude value: ", lonStr))
        ELSE IF FLess(plat.val, FromInt(-90)) \/ FGreater(plat.val, FromInt(90))
        THEN fail(Msg("latitude must be between -90 and 90, got: ", FormatF4(plat.val)))
        ELSE IF FLess(plon.val, FromInt(-180)) \/ FGreater(plon.val, FromInt(180))
        THEN fail(Msg("longitude must be between -180 and 180, got: ", FormatF4(plon.val)))
        ELSE [err |-> FALSE, msg |-> Msg("", <<>>), lat |-> plat.val, lon |-> plon.val]

\* parseCoordinates: [err, msg, lat, lon].
parseCoordinates(r) ==
    Validate(Get(r.query, "lat"), Get(r.query, "lon"),
             ParseFloat(Get(r.query, "lat")), ParseFloat(Get(r.query, "lon")))

\* An http.ResponseWriter nothing has been written to.  header is the
\* Content-Type of the header map; status and contentType are what went on
\* the wire with the first WriteHeader; writes is every Write made, with
\* the bytes given and whether the write succeeded.
NewResponseWriter ==
    [wroteHeader |-> FALSE, status |-> 0, header |-> "", contentType |-> "", writes |-> <<>>]

\* w.Header().Set("Content-Type", v).
SetContentType(w, v) == [w EXCEPT !.header = v]

\* w.WriteHeader(code): only the first call reaches the wire.
WriteHeader(w, code) ==
    IF w.wroteHeader THEN w
    ELSE [w EXCEPT !.wroteHeader = TRUE, !.status = code, !.contentType = w.header]

\* w.Write(chunk), which succeeds or not: an implicit WriteHeader(200) if
\* none was made.
Write(w, chunk, ok) ==
    [WriteHeader(w, 200) EXCEPT !.writes = Append(w.writes, [chunk |-> chunk, ok |-> ok])]

\* The bytes that reached the caller.
Body(w) ==
    LET sent == SelectSeq(w.writes, LAMBDA x : x.ok)
    IN  [i \in 1..Len(sent) |-> sent[i].chunk]

\* json.NewEncoder(w).Encode(data), the bytes produced: the object's members
\* in field order, named by the json tag or else by the Go field name.
Encode(data) ==
    IF data.type = "ErrorResponse"
    THEN [kind |-> "json", members |-> <<<<"error", data.Error>>>>]
    ELSE [kind |-> "json",
          members |-> << <<"ObservationTime", data.ObservationTime>>,
                         <<"Country", data.Country>>,
                         <<"City", data.City>>,
                         <<"Condition", data.Condition>>,
                         <<"TemperatureCategory", data.TemperatureCategory>> >>]

\* The bytes of http.Error's fmt.Fprintln(w, text).
Text(text) == [kind |-> "text", members |-> <<<<"", text>>>>]

\* http.Error(w, text, code); ok says whether its write succeeds.
HttpError(w, text, code, ok) ==
    Write(WriteHeader(SetContentType(w, "text/plain; charset=utf-8"), code), Text(text), ok)

\* sendJSONResponse; wr[1] says whether Encode's write succeeds, wr[2] whether
\* the write of http.Error does.
sendJSONResponse(w, statusCode, data, wr) ==
    LET w1 == Write(WriteHeader(SetContentType(w, "application/json"), statusCode),
                    Encode(data), wr[1])
    IN  IF wr[1] THEN w1
        ELSE HttpError(w1, "Internal server error", 500, wr[2])

ErrorResponse(message) == [type |-> "ErrorResponse", Error |-> message]

\* sendErrorResponse.
sendErrorResponse(w, statusCode, message, wr) ==
    sendJSONResponse(w, statusCode, ErrorResponse(message), wr)

(* ------------- client: internal/service/weather_service.go ------------- *)

\* main.temp is kept in hundredths of a kelvin, a Fahrenheit temperature in
\* units of 1/FUnit degree, so that (K - 273.15) * 9 / 5 + 32 is exact.
FUnit == 500

\* tempFahrenheit := (mapResponse.Main.Temp-273.15)*9/5 + 32, in 1/FUnit degrees.
TempFahrenheit(temp) == (temp - 27315) * 9 + 32 * FUnit

\* Faulty variant of categorizeTemperature: 50 degrees itself counted as cold.
categorizeTemperatureOffByOne(tempFahrenheit) ==
    IF tempFahrenheit <= 50 * FUnit THEN "cold"
    ELSE IF tempFahrenheit > 50 * FUnit /\ tempFahrenheit < 68 * FUnit THEN "moderate"
    ELSE "hot"

\* categorizeTemperature.
categorizeTemperature(tempFahrenheit) ==
    IF tempFahrenheit < 50 * FUnit THEN "cold"
    ELSE IF tempFahrenheit >= 50 * FUnit /\ tempFahrenheit < 68 * FUnit THEN "moderate"
    ELSE "hot"

\* weatherCheckTime: time.Unix(dt, 0) under the layout, in the local zone.
weatherCheckTime(dt) == [layout |-> "2006-01-02 15:04:05 MST", unix |-> dt, zone |-> "Local"]

\* A JSON value of the upstream body's "cod" member: a number or a string.
CodNum(n) == [t |-> "number", v |-> n]
CodStr(n) == [t |-> "string", v |-> n]

\* A member of a JSON object, or the Go zero value when it is absent.
Member(obj, key, zero) == IF key \in DOMAIN obj THEN obj[key] ELSE zero

\* json.Unmarshal(body, &mapResponse): [ok, v] with v the OpenWeatherMapResponse.
\* A body that is not JSON, or whose cod is not a number, is an error.
Unmarshal(body) ==
    LET zero == [Weather |-> <<>>, Temp |-> 0, UnixSeconds |-> 0, Country |-> "",
                 Name |-> "", HttpCode |-> 0, Message |-> ""]
    IN  IF ~body.json THEN [ok |-> FALSE, v |-> zero]
        ELSE IF "cod" \in DOMAIN body.obj /\ body.obj["cod"].t # "number"
        THEN [ok |-> FALSE, v |-> zero]
        ELSE [ok |-> TRUE,
              v |-> [Weather |-> Member(body.obj, "weather", <<>>),
                     Temp |-> Member(body.obj, "temp", 0),
                     UnixSeconds |-> Member(body.obj, "dt", 0),
                     Country |-> Member(body.obj, "country", ""),
                     Name |-> Member(body.obj, "name", ""),
                     HttpCode |-> Member(body.obj, "cod", CodNum(0)).v,
                     Message |-> Member(body.obj, "message", "")]]

SvcError(text, arg) == [kind |-> "error", err |-> Msg(text, arg), data |-> <<>>]
SvcPanic(what) == [kind |-> "panic", err |-> Msg(what, <<>>), data |-> <<>>]
SvcData(d) == [kind |-> "data", err |-> Msg("", <<>>), data |-> d]
SvcNone == [kind |-> "none", err |-> Msg("", <<>>), data |-> <<>>]

\* Faulty variant of ServiceReturn: the HTTP status, not the body's cod,
\* decides between success and the upstream-status error.
ServiceReturnByHttpStatus(u) ==
    IF u.kind = "transport_error"
    THEN SvcError("failed to make HTTP request: ", <<u.cause>>)
    ELSE IF u.kind = "read_error"
    THEN SvcError("failed to read response body: ", <<u.cause>>)
    ELSE
        LET m == Unmarshal(u.body)
        IN  IF ~m.ok THEN SvcError("failed to parse JSON response: ", <<"json">>)
            ELSE IF u.status # 200
            THEN SvcError("OpenWeatherMap API error (code %d): %s", <<u.status, m.v.Message>>)
            ELSE IF Len(m.v.Weather) = 0
            THEN SvcPanic("index out of range [0] with length 0")
            ELSE SvcData([type |-> "WeatherData",
                          ObservationTime |-> weatherCheckTime(m.v.UnixSeconds),
                          Country |-> m.v.Country,
                          City |-> m.v.Name,
                          Condition |-> m.v.Weather[1],
                          TemperatureCategory |->
                              categorizeTemperature(TempFahrenheit(m.v.Temp))])

\* OpenWeatherMapService.GetWeather from the return of httpClient.Do on: what
\* it returns for the outcome u of the HTTP exchange.  Indexing the empty
\* Weather slice is a run-time panic.
ServiceReturn(u) ==
    IF u.kind = "transport_error"
    THEN SvcError("failed to make HTTP request: ", <<u.cause>>)
    ELSE IF u.kind = "read_error"
    THEN SvcError("failed to read response body: ", <<u.cause>>)
    ELSE
        LET m == Unmarshal(u.body)
        IN  IF ~m.ok THEN SvcError("failed to parse JSON response: ", <<"json">>)
            ELSE IF m.v.HttpCode # 200
            THEN SvcError("OpenWeatherMap API error (code %d): %s", <<m.v.HttpCode, m.v.Message>>)
            ELSE IF Len(m.v.Weather) = 0
            THEN SvcPanic("index out of range [0] with length 0")
            ELSE SvcData([type |-> "WeatherData",
                          ObservationTime |-> weatherCheckTime(m.v.UnixSeconds),
                          Country |-> m.v.Country,
                          City |-> m.v.Name,
                          Condition |-> m.v.Weather[1],
                          TemperatureCategory |->
                              categorizeTemperature(TempFahrenheit(m.v.Temp))])

\* buildAPIURL failing: url.Parse rejects baseURL + "/weather".
BuildError == SvcError("failed to build API URL: ", <<"parse">>)

(* ------------------------------ main.go -------------------------------- *)

\* handler.New(weatherService, config.ClientTimeoutSec): the per-request timeout.
HandlerTimeoutSec(cfg) == cfg.ClientTimeoutSec

\* Faulty variant of ServiceTimeoutSec: the client's timeout below the handler's.
ServiceTimeoutSecShort(cfg) == cfg.ClientTimeoutSec - 1

\* service.New(..., config.ClientTimeoutSec*3): http.Client.Timeout.
ServiceTimeoutSec(cfg) == cfg.ClientTimeoutSec * 3

(* ------------------------------- state --------------------------------- *)

VARIABLES
    config,       \* the Config record loadServerConfig returned
    phase,        \* main: "starting", "listening", "shutdown", "exited"
    sinceSignal,  \* seconds since the shutdown signal
    exitCode,     \* the process's exit status, -1 while it runs
    serverLog,    \* main's log lines
    atSignal,     \* per request: its pc when the signal arrived
    req,          \* per request: the *http.Request
    pc,           \* per request: "free", "upstream", "done", "panicked", "killed"
    rw,           \* per request: the http.ResponseWriter
    calls,        \* per request: the (lat, lon) of each WeatherService.GetWeather call
    result,       \* per request: what WeatherService.GetWeather returned
    upstream,     \* per request: the outcome of httpClient.Do
    elapsed,      \* per request: seconds since the handler created its context
    abort,        \* per request: why the in-flight HTTP call was aborted
    parsed        \* per request: whether parseCoordinates ran

vars == <<config, phase, sinceSignal, exitCode, serverLog, atSignal, req, pc, rw,
          calls, result, upstream, elapsed, abort, parsed>>

serverVars == <<phase, sinceSignal, exitCode, serverLog, atSignal>>

Reqs == 1..NumReq

NoRequest == [method |-> "", query |-> <<>>]
NoOutcome == [kind |-> "none"]

Configs ==
    [ClientTimeoutSec : 0..MaxClientTimeoutSec,
     ServerShutdownTimeoutSec : 0..MaxShutdownTimeoutSec,
     baseURLOk : BOOLEAN]

InitIn(ph) ==
    /\ config \in Configs
    /\ phase = ph
    /\ sinceSignal = 0
    /\ exitCode = -1
    /\ serverLog = <<>>
    /\ atSignal = [r \in Reqs |-> "nosignal"]
    /\ req = [r \in Reqs |-> NoRequest]
    /\ pc = [r \in Reqs |-> "free"]
    /\ rw = [r \in Reqs |-> NewResponseWriter]
    /\ calls = [r \in Reqs |-> <<>>]
    /\ result = [r \in Reqs |-> SvcNone]
    /\ upstream = [r \in Reqs |-> NoOutcome]
    /\ elapsed = [r \in Reqs |-> 0]
    /\ abort = [r \in Reqs |-> "none"]
    /\ parsed = [r \in Reqs |-> FALSE]

\* The process after loadServerConfig succeeded.
Init == InitIn("starting")

(* ------------------------- the handler's steps ------------------------- *)

\* WeatherHandler.GetWeather after parseCoordinates returned c: the 400 it
\* sends, or the coordinates it calls the service with.
Validated(c) ==
    [respond |-> c.err, status |-> IF c.err THEN 400 ELSE 0, msg |-> c.msg,
     parsed |-> TRUE, lat |-> c.lat, lon |-> c.lon]

\* Faulty variant of HandlerBegin: the query validated before the method is checked.
HandlerBeginValidatingFirst(r) ==
    IF parseCoordinates(r).err \/ r.method = "GET"
    THEN Validated(parseCoordinates(r))
    ELSE [respond |-> TRUE, status |-> 405, msg |-> Msg("Method not allowed", <<>>),
          parsed |-> TRUE, lat |-> FromInt(0), lon |-> FromInt(0)]

\* WeatherHandler.GetWeather up to the call of the service: the response it
\* sends at once, or the coordinates it calls the service with.
HandlerBegin(r) ==
    IF r.method # "GET"
    THEN [respond |-> TRUE, status |-> 405, msg |-> Msg("Method not allowed", <<>>),
          parsed |-> FALSE, lat |-> FromInt(0), lon |-> FromInt(0)]
    ELSE Validated(parseCoordinates(r))

\* Faulty variant of HandlerEnd: the service's error passed on to the caller.
HandlerEndLeaky(w, ret, wr) ==
    IF ret.kind = "error"
    THEN sendErrorResponse(w, 503, ret.err, wr)
    ELSE sendJSONResponse(w, 200, ret.data, wr)

\* WeatherHandler.GetWeather from the return of the service on.
HandlerEnd(w, ret, wr) ==
    IF ret.kind = "error"
    THEN sendErrorResponse(w, 503, Msg("Unable to fetch weather data", <<>>), wr)
    ELSE sendJSONResponse(w, 200, ret.data, wr)

\* The context the handler made has passed its deadline.
CtxExpired(r) == elapsed[r] >= HandlerTimeoutSec(config)

\* http.Client.Timeout has passed; a Timeout of zero or less means none.
ClientExpired(r) ==
    /\ ServiceTimeoutSec(config) > 0
    /\ elapsed[r] >= ServiceTimeoutSec(config)

Expired(r) == CtxExpired(r) \/ ClientExpired(r)

InFlight == {r \in Reqs : pc[r] = "upstream"}

\* Faulty variant of Accepting: connections accepted until the process exits.
AcceptingUntilExit == phase \in {"listening", "shutdown"}

\* The listener takes connections: ListenAndServe runs and Shutdown has not
\* closed the listener.
Accepting == phase = "listening"

\* The service returned ret to the handler of request r, which finishes.
Finish(r, ret, wr) ==
    /\ result' = [result EXCEPT ![r] = ret]
    /\ IF ret.kind = "panic"
       THEN /\ pc' = [pc EXCEPT ![r] = "panicked"]
            /\ rw' = rw
       ELSE /\ pc' = [pc EXCEPT ![r] = "done"]
            /\ rw' = [rw EXCEPT ![r] = HandlerEnd(rw[r], ret, wr)]

\* The handler of request r after HandlerBegin returned b: it responds, or
\* calls the service, which fails at once or starts httpClient.Do.
Begun(r, b, wr) ==
    /\ parsed' = [parsed EXCEPT ![r] = b.parsed]
    /\ IF b.respond
       THEN /\ rw' = [rw EXCEPT ![r] = sendErrorResponse(rw[r], b.status, b.msg, wr)]
            /\ pc' = [pc EXCEPT ![r] = "done"]
            /\ UNCHANGED <<calls, result>>
       ELSE /\ calls' = [calls EXCEPT ![r] = Append(calls[r], [lat |-> b.lat, lon |-> b.lon])]
            /\ IF config.baseURLOk
               THEN /\ pc' = [pc EXCEPT ![r] = "upstream"]
                    /\ UNCHANGED <<rw, result>>
               ELSE Finish(r, BuildError, wr)

\* A request arrives on a new connection and the handler runs up to its
\* response or, when it calls the service, up to httpClient.Do.  Requests
\* are numbered in the order they arrive.
Accept(r, q, wr) ==
    /\ Accepting
    /\ pc[r] = "free"
    /\ \A o \in Reqs : o < r => pc[o] # "free"
    /\ req' = [req EXCEPT ![r] = q]
    /\ Begun(r, HandlerBegin(q), wr)
    /\ UNCHANGED <<config, serverVars, upstream, elapsed, abort>>

\* httpClient.Do returns before any deadline: a response or an error.
DoReturns(r, u, wr) ==
    /\ phase # "exited"
    /\ pc[r] = "upstream"
    /\ ~Expired(r)
    /\ upstream' = [upstream EXCEPT ![r] = u]
    /\ Finish(r, ServiceReturn(u), wr)
    /\ UNCHANGED <<config, serverVars, req, calls, elapsed, abort, parsed>>

\* A deadline passes while httpClient.Do is in flight: the call is aborted.
DeadlineExceeded(r, wr) ==
    /\ phase # "exited"
    /\ pc[r] = "upstream"
    /\ Expired(r)
    /\ LET why == IF CtxExpired(r) THEN "ctx_deadline" ELSE "client_timeout"
           u == [kind |-> "transport_error", cause |-> "context deadline exceeded"]
       IN  /\ abort' = [abort EXCEPT ![r] = why]
           /\ upstream' = [upstream EXCEPT ![r] = u]
           /\ Finish(r, ServiceReturn(u), wr)
    /\ UNCHANGED <<config, serverVars, req, calls, elapsed, parsed>>

\* The client closes its connection: r.Context() is cancelled and with it
\* the handler's context, which aborts httpClient.Do.
ClientDisconnect(r, wr) ==
    /\ phase # "exited"
    /\ pc[r] = "upstream"
    /\ ~Expired(r)
    /\ LET u == [kind |-> "transport_error", cause |-> "context canceled"]
       IN  /\ abort' = [abort EXCEPT ![r] = "ctx_canceled"]
           /\ upstream' = [upstream EXCEPT ![r] = u]
           /\ Finish(r, ServiceReturn(u), wr)
    /\ UNCHANGED <<config, serverVars, req, calls, elapsed, parsed>>

(* --------------------------- the server host --------------------------- *)

\* server.ListenAndServe binds the port.
Listen ==
    /\ phase = "starting"
    /\ phase' = "listening"
    /\ UNCHANGED <<config, sinceSignal, exitCode, serverLog, atSignal, req, pc, rw,
                   calls, result, upstream, elapsed, abort, parsed>>

\* server.ListenAndServe fails: log.Fatalf.
ListenFail ==
    /\ phase = "starting"
    /\ phase' = "exited"
    /\ exitCode' = 1
    /\ serverLog' = Append(serverLog, "Server failed to start")
    /\ UNCHANGED <<config, sinceSignal, atSignal, req, pc, rw,
                   calls, result, upstream, elapsed, abort, parsed>>

\* Faulty variant of Signal: the signal cancels the context of every request in
\* flight, whose handler answers 503 at once.
SignalCancelling ==
    /\ phase \in {"starting", "listening"}
    /\ phase' = "shutdown"
    /\ sinceSignal' = 0
    /\ serverLog' = Append(serverLog, "Shutting down server...")
    /\ atSignal' = pc
    /\ pc' = [r \in Reqs |-> IF r \in InFlight THEN "done" ELSE pc[r]]
    /\ abort' = [r \in Reqs |-> IF r \in InFlight THEN "ctx_canceled" ELSE abort[r]]
    /\ upstream' = [r \in Reqs |->
                        IF r \in InFlight
                        THEN [kind |-> "transport_error", cause |-> "context canceled"]
                        ELSE upstream[r]]
    /\ result' = [r \in Reqs |->
                      IF r \in InFlight
                      THEN SvcError("failed to make HTTP request: ", <<"context canceled">>)
                      ELSE result[r]]
    /\ rw' = [r \in Reqs |->
                  IF r \in InFlight
                  THEN HandlerEnd(rw[r], SvcError("failed to make HTTP request: ",
                                                  <<"context canceled">>), <<TRUE, TRUE>>)
                  ELSE rw[r]]
    /\ UNCHANGED <<config, exitCode, req, calls, elapsed, parsed>>

\* SIGINT or SIGTERM arrives on quit: main calls server.Shutdown(ctx).
Signal ==
    /\ phase \in {"starting", "listening"}
    /\ phase' = "shutdown"
    /\ sinceSignal' = 0
    /\ serverLog' = Append(serverLog, "Shutting down server...")
    /\ atSignal' = pc
    /\ UNCHANGED <<config, exitCode, req, pc, rw, calls, result, upstream, elapsed,
                   abort, parsed>>

\* server.Shutdown finds no active connection and returns nil: main returns.
ShutdownDrained ==
    /\ phase = "shutdown"
    /\ InFlight = {}
    /\ phase' = "exited"
    /\ exitCode' = 0
    /\ serverLog' = Append(serverLog, "Server exited")
    /\ UNCHANGED <<config, sinceSignal, atSignal, req, pc, rw,
                   calls, result, upstream, elapsed, abort, parsed>>

\* server.Shutdown's context expires with connections still active: it
\* returns the context's error and log.Fatalf ends the process.
ShutdownTimeout ==
    /\ phase = "shutdown"
    /\ InFlight # {}
    /\ sinceSignal >= config.ServerShutdownTimeoutSec
    /\ phase' = "exited"
    /\ exitCode' = 1
    /\ serverLog' = Append(serverLog, "Server forced to shutdown")
    /\ pc' = [r \in Reqs |-> IF pc[r] = "upstream" THEN "killed" ELSE pc[r]]
    /\ UNCHANGED <<config, sinceSignal, atSignal, req, rw,
                   calls, result, upstream, elapsed, abort, parsed>>

\* One second passes.  Time does not pass a deadline that is due: a timer
\* that has expired fires first, and Shutdown, which polls several times a
\* second, returns once the connections are idle.
Tick ==
    /\ phase # "exited"
    /\ InFlight # {}
    /\ \A r \in InFlight : ~Expired(r)
    /\ phase = "shutdown" => sinceSignal < config.ServerShutdownTimeoutSec
    /\ elapsed' = [r \in Reqs |-> IF r \in InFlight THEN elapsed[r] + 1 ELSE elapsed[r]]
    /\ sinceSignal' = IF phase = "shutdown" THEN sinceSignal + 1 ELSE sinceSignal
    /\ UNCHANGED <<config, phase, exitCode, serverLog, atSignal, req, pc, rw,
                   calls, result, upstream, abort, parsed>>

(* ------------------------------ inputs --------------------------------- *)

Absent == [present |-> FALSE, v |-> <<>>]
Present(v) == [present |-> TRUE, v |-> v]

\* The query of a request: the parameters present and their first values.
Query(lat, lon) ==
    [k \in ({"lat" : x \in {1} \cap (IF lat.present THEN {1} ELSE {})}
            \cup {"lon" : x \in {1} \cap (IF lon.present THEN {1} ELSE {})})
        |-> IF k = "lat" THEN lat.v ELSE lon.v]

Request(method, lat, lon) == [method |-> method, query |-> Query(lat, lon)]

Methods == {"GET", "POST"}

LatInputs ==
    { Absent,
      Present(<<>>),
      Present(<<"a", "b", "c">>),
      Present(<<"N", "a", "N">>),
      Present(<<"I", "n", "f">>),
      Present(<<"-", "9", "1">>),
      Present(<<"-", "9", "0">>),
      Present(<<"4", "0", ".", "7">>),
      Present(<<"9", "0">>),
      Present(<<"9", "0", ".", "0", "0", "0", "0", "0", "0", "1">>),
      Present(<<"9", "1">>) }

LonInputs ==
    { Absent,
      Present(<<"x">>),
      Present(<<"n", "a", "n">>),
      Present(<<"-", "i", "n", "f">>),
      Present(<<"-", "1", "8", "0">>),
      Present(<<"-", "7", "4", ".", "0">>),
      Present(<<"1", "8", "0">>),
      Present(<<"1", "8", "1">>) }

\* Every request the single-request specification draws.
HandlerRequests == {Request(m, lat, lon) : m \in Methods, lat \in LatInputs, lon \in LonInputs}

\* The requests the concurrent specification draws.
ServerRequests ==
    { Request("GET", Present(<<"4", "0", ".", "7">>), Present(<<"-", "7", "4", ".", "0">>)),
      Request("GET", Absent, Present(<<"-", "7", "4", ".", "0">>)),
      Request("POST", Present(<<"4", "0", ".", "7">>), Present(<<"-", "7", "4", ".", "0">>)) }

\* Upstream bodies.
Garbage == [json |-> FALSE, obj |-> <<>>]
Json(obj) == [json |-> TRUE, obj |-> obj]

Observed(weather, temp, cod) ==
    Json([k \in {"weather", "temp", "dt", "country", "name", "cod"} |->
            CASE k = "weather" -> weather
              [] k = "temp" -> temp
              [] k = "dt" -> 1717626203
              [] k = "country" -> "US"
              [] k = "name" -> "New York"
              [] k = "cod" -> cod])

NoWeather(temp, cod) ==
    Json([k \in {"temp", "dt", "cod"} |->
            CASE k = "temp" -> temp [] k = "dt" -> 1717626203 [] k = "cod" -> cod])

Failure(cod, message) ==
    Json([k \in {"cod", "message"} |-> IF k = "cod" THEN cod ELSE message])

NoCod(message) == Json([k \in {"message"} |-> message])

Response(status, body) == [kind |-> "response", status |-> status, body |-> body]
TransportError(cause) == [kind |-> "transport_error", cause |-> cause]
ReadError(cause) == [kind |-> "read_error", cause |-> cause]

\* main.temp values, in hundredths of a kelvin: 283.15 K is 50 F, 293.15 K is 68 F.
Temps == {0, 28314, 28315, 28316, 29314, 29315, 29316, 31000}

\* Every outcome of httpClient.Do the single-request specification draws.
HandlerOutcomes ==
    {Response(200, Observed(<<"Clear">>, t, CodNum(200))) : t \in Temps}
    \cup { Response(200, Observed(<<"Rain", "Clouds">>, 28000, CodNum(200))),
           Response(200, Observed(<<>>, 28000, CodNum(200))),
           Response(200, NoWeather(28000, CodNum(200))),
           Response(500, Observed(<<"Snow">>, 26000, CodNum(200))),
           Response(401, Failure(CodNum(401), "Invalid API key")),
           Response(429, Failure(CodNum(429), "Too many requests")),
           Response(404, Failure(CodStr(404), "city not found")),
           Response(200, Failure(CodNum(404), "city not found")),
           Response(200, NoCod("")),
           Response(503, NoCod("Service Unavailable")),
           Response(200, Garbage),
           TransportError("connection refused"),
           ReadError("unexpected EOF") }

\* The outcomes the concurrent specification draws.
ServerOutcomes ==
    { Response(200, Observed(<<"Clear">>, 29315, CodNum(200))),
      Response(200, Observed(<<>>, 28000, CodNum(200))),
      Response(401, Failure(CodNum(401), "Invalid API key")),
      TransportError("connection refused") }

\* Whether the write of Encode and the write of http.Error succeed.
Writes == BOOLEAN \X BOOLEAN

(* --------------------------- specifications ---------------------------- *)

\* The server with NumReq connections.
Next ==
    \/ Listen
    \/ ListenFail
    \/ Signal
    \/ ShutdownDrained
    \/ ShutdownTimeout
    \/ Tick
    \/ \E r \in Reqs, q \in ServerRequests, wr \in Writes : Accept(r, q, wr)
    \/ \E r \in Reqs, u \in ServerOutcomes, wr \in Writes : DoReturns(r, u, wr)
    \/ \E r \in Reqs, wr \in Writes : DeadlineExceeded(r, wr)
    \/ \E r \in Reqs, wr \in Writes : ClientDisconnect(r, wr)

Spec == Init /\ [][Next]_vars

\* The server under the scheduling the runtime gives: time passes, a timer
\* that is due fires, and main's goroutine runs.  Nothing obliges the
\* upstream to answer, a client to connect or a signal to arrive.
DeadlineFires(r) == \E wr \in Writes : DeadlineExceeded(r, wr)

Fairness ==
    /\ WF_vars(Tick)
    /\ WF_vars(ShutdownDrained)
    /\ WF_vars(ShutdownTimeout)
    /\ \A r \in Reqs : WF_vars(DeadlineFires(r))

FairSpec == Spec /\ Fairness

\* One request on a listening server, over every input.
InitHandler == InitIn("listening")

NextHandler ==
    \/ Tick
    \/ \E q \in HandlerRequests, wr \in Writes : Accept(1, q, wr)
    \/ \E u \in HandlerOutcomes, wr \in Writes : DoReturns(1, u, wr)
    \/ \E wr \in Writes : DeadlineExceeded(1, wr)
    \/ \E wr \in Writes : ClientDisconnect(1, wr)

SpecHandler == InitHandler /\ [][NextHandler]_vars

(* ------------------------------- claims -------------------------------- *)

Started == {r \in Reqs : pc[r] # "free"}

\* The raw values of a request's query and what the parser makes of them.
LatStr(r) == Get(req[r].query, "lat")
LonStr(r) == Get(req[r].query, "lon")
Lat(r) == ParseFloat(LatStr(r))
Lon(r) == ParseFloat(LonStr(r))

\* x lies in [-bound, bound]; no NaN does.
Within(x, bound) == FLeq(FromInt(-bound), x) /\ FLeq(x, FromInt(bound))

\* The JSON error payload with the given message.
ErrorPayload(text, arg) == [kind |-> "json", members |-> <<<<"error", Msg(text, arg)>>>>]

\* The handler of r responded, once, with this status and this JSON payload.
Responded(r, status, payload) ==
    /\ pc[r] = "done"
    /\ rw[r].status = status
    /\ rw[r].contentType = "application/json"
    /\ Len(rw[r].writes) >= 1
    /\ rw[r].writes[1].chunk = payload
    /\ rw[r].writes[1].ok => Body(rw[r]) = <<payload>>

\* C1: for every GET /weather request whose lat and lon both parse, NaN and
\* the infinities included, a lat outside [-90, 90] or a lon outside
\* [-180, 180] is answered 400 without a call of the Weather Client: every
\* (lat, lon) passed to WeatherService.GetWeather lies within the bounds.
C1_CallsWithinBounds ==
    \A r \in Started :
        /\ \A i \in DOMAIN calls[r] :
                Within(calls[r][i].lat, 90) /\ Within(calls[r][i].lon, 180)
        /\ (/\ req[r].method = "GET"
            /\ Lat(r).ok
            /\ Lon(r).ok
            /\ ~(Within(Lat(r).val, 90) /\ Within(Lon(r).val, 180)))
           => (rw[r].status = 400 /\ calls[r] = <<>>)

\* C2: whenever WeatherService.GetWeather returns an error, of whatever kind,
\* the handler responds 503 with the fixed JSON body {"error":"Unable to
\* fetch weather data"}, whatever the error was, and has called the service
\* once only.  (The fixed body is what the handler writes; if that write
\* fails, what it then does is the matter of the encode-failure claim.)
C2_ServiceErrorIsOpaque503 ==
    \A r \in Started :
        result[r].kind = "error" =>
            /\ Responded(r, 503, ErrorPayload("Unable to fetch weather data", <<>>))
            /\ Len(calls[r]) = 1

C2_Witness ==
    \E r \in Started :
        /\ result[r].kind = "error"
        /\ result[r].err.text = "OpenWeatherMap API error (code %d): %s"
        /\ rw[r].status = 503
        /\ Body(rw[r]) = <<ErrorPayload("Unable to fetch weather data", <<>>)>>

\* The observation of r as the JSON object the caller is sent.
ObservationPayload(d) ==
    [kind |-> "json",
     members |-> << <<"ObservationTime", d.ObservationTime>>, <<"Country", d.Country>>,
                    <<"City", d.City>>, <<"Condition", d.Condition>>,
                    <<"TemperatureCategory", d.TemperatureCategory>> >>]

\* C3: for every GET /weather request with lat in [-90, 90] and lon in
\* [-180, 180], the bounds included, the handler calls the Weather Client
\* exactly once, with those coordinates, and if the client returns an
\* Observation the response is 200, application/json, carrying exactly it.
C3_ValidRequestServed ==
    \A r \in Started :
        (/\ req[r].method = "GET"
         /\ Lat(r).ok
         /\ Lon(r).ok
         /\ Within(Lat(r).val, 90)
         /\ Within(Lon(r).val, 180))
        => /\ calls[r] = <<[lat |-> Lat(r).val, lon |-> Lon(r).val]>>
           /\ result[r].kind = "data" => Responded(r, 200, ObservationPayload(result[r].data))

C3_Witness ==
    \E r \in Started :
        /\ req[r].method = "GET"
        /\ LatStr(r) = <<"9", "0">>
        /\ LonStr(r) = <<"-", "1", "8", "0">>
        /\ result[r].kind = "data"
        /\ rw[r].status = 200
        /\ Body(rw[r]) = <<ObservationPayload(result[r].data)>>

\* C4: every request to /weather whose method is not GET, whatever its
\* query, is answered 405 with {"error":"Method not allowed"}; its query is
\* not validated and the Weather Client is not called.
C4_MethodNotAllowed ==
    \A r \in Started :
        req[r].method # "GET" =>
            /\ Responded(r, 405, ErrorPayload("Method not allowed", <<>>))
            /\ ~parsed[r]
            /\ calls[r] = <<>>
            /\ result[r].kind = "none"

C4_Witness ==
    \E r \in Started :
        /\ req[r].method = "POST"
        /\ LatStr(r) = <<"9", "1">>
        /\ rw[r].status = 405
        /\ Body(rw[r]) = <<ErrorPayload("Method not allowed", <<>>)>>

\* The five checks of a query, in the order of the claim; a range check is
\* of the parsed value and fails when it is beyond the bound.
Beyond(x, bound) == FLess(x, FromInt(-bound)) \/ FGreater(x, FromInt(bound))

CheckFails(r, n) ==
    CASE n = 1 -> LatStr(r) = <<>> \/ LonStr(r) = <<>>
      [] n = 2 -> ~Lat(r).ok
      [] n = 3 -> ~Lon(r).ok
      [] n = 4 -> Lat(r).ok /\ Beyond(Lat(r).val, 90)
      [] n = 5 -> Lon(r).ok /\ Beyond(Lon(r).val, 180)

CheckMessage(r, n) ==
    CASE n = 1 -> Msg("lat and lon query parameters are required", <<>>)
      [] n = 2 -> Msg("invalid latitude value: ", LatStr(r))
      [] n = 3 -> Msg("invalid longitude value: ", LonStr(r))
      [] n = 4 -> Msg("latitude must be between -90 and 90, got: ", FormatF4(Lat(r).val))
      [] n = 5 -> Msg("longitude must be between -180 and 180, got: ", FormatF4(Lon(r).val))

\* C5: a GET /weather query is checked in a fixed order - lat or lon missing
\* or empty, lat unparseable, lon unparseable, lat out of range, lon out of
\* range - and the response is 400 with the message of the first check that
\* fails, sent before any upstream call.
C5_FirstFailingCheck ==
    \A r \in Started :
        req[r].method = "GET" =>
            \A n \in 1..5 :
                (CheckFails(r, n) /\ \A m \in 1..(n - 1) : ~CheckFails(r, m))
                => /\ Responded(r, 400, [kind |-> "json",
                                         members |-> <<<<"error", CheckMessage(r, n)>>>>])
                   /\ calls[r] = <<>>
                   /\ result[r].kind = "none"
                   /\ upstream[r].kind = "none"

C5_Witness ==
    \E r \in Started :
        /\ req[r].method = "GET"
        /\ "lat" \in DOMAIN req[r].query
        /\ LatStr(r) = <<>>
        /\ ~Lon(r).ok
        /\ LonStr(r) # <<>>
        /\ rw[r].status = 400
        /\ Body(rw[r]) = <<ErrorPayload("lat and lon query parameters are required", <<>>)>>

\* C8: for every upstream response accepted as successful the category is
\* one of "cold", "moderate", "hot" and is decided by the Fahrenheit value F
\* alone: cold below 50, moderate from 50 to below 68, hot from 68 on; 50
\* itself (283.15 K) is moderate and 68 itself (293.15 K) is hot.
C8_CategoryByFahrenheit ==
    \A r \in Started :
        result[r].kind = "data" =>
            LET k == upstream[r].body.obj["temp"]
                f == TempFahrenheit(k)
                cat == result[r].data.TemperatureCategory
            IN  /\ cat \in {"cold", "moderate", "hot"}
                /\ cat = "cold" <=> f < 50 * FUnit
                /\ cat = "moderate" <=> (50 * FUnit <= f /\ f < 68 * FUnit)
                /\ cat = "hot" <=> f >= 68 * FUnit
                /\ k = 28315 => cat = "moderate"
                /\ k = 29315 => cat = "hot"
                /\ k = 28314 => cat = "cold"
                /\ k = 29314 => cat = "moderate"

C8_Witness ==
    \E r \in Started :
        /\ result[r].kind = "data"
        /\ upstream[r].body.obj["temp"] = 28315
        /\ TempFahrenheit(28315) = 50 * FUnit
        /\ result[r].data.TemperatureCategory = "moderate"
        /\ rw[r].status = 200

\* The upstream answered r with a JSON body whose cod is 200 and whose
\* weather array is empty or absent.
EmptyWeather(r) ==
    /\ upstream[r].kind = "response"
    /\ upstream[r].body.json
    /\ "cod" \in DOMAIN upstream[r].body.obj
    /\ upstream[r].body.obj["cod"] = CodNum(200)
    /\ ("weather" \in DOMAIN upstream[r].body.obj => upstream[r].body.obj["weather"] = <<>>)

\* C9: when the upstream body parses with cod = 200 but its weather array is
\* empty or absent, GetWeather returns the error "weather array empty" (it
\* returns no Observation and does not terminate abnormally) and the handler
\* answers the request with the opaque 503.
C9_EmptyWeatherIsError ==
    \A r \in Started :
        EmptyWeather(r) =>
            /\ result[r].kind = "error"
            /\ pc[r] = "done"
            /\ rw[r].status = 503

Ended(r) == pc[r] \in {"done", "panicked", "killed"}

\* C6: a handler invocation that passed validation does not stay in flight
\* for ever when the upstream hangs: it is never in flight past
\* ExternalAPITimeoutSec; the per-request deadline, never the client's own
\* timeout of three times that, aborts the call; the handler then returns
\* 503; and a request in flight is eventually no longer in flight.
C6_DeadlineHonoured ==
    /\ [](\A r \in Reqs :
            /\ pc[r] = "upstream" => elapsed[r] <= config.ClientTimeoutSec
            /\ abort[r] # "client_timeout"
            /\ abort[r] = "ctx_deadline" =>
                  /\ elapsed[r] = config.ClientTimeoutSec
                  /\ result[r].kind = "error"
                  /\ Responded(r, 503, ErrorPayload("Unable to fetch weather data", <<>>)))
    /\ \A r \in Reqs : (pc[r] = "upstream") ~> Ended(r)

C6_Witness ==
    \E r \in Reqs :
        /\ config.ClientTimeoutSec > 0
        /\ abort[r] = "ctx_deadline"
        /\ elapsed[r] = config.ClientTimeoutSec
        /\ elapsed[r] < 3 * config.ClientTimeoutSec
        /\ pc[r] = "done"
        /\ rw[r].status = 503

Signalled == \E i \in DOMAIN serverLog : serverLog[i] = "Shutting down server..."

\* A step that, once the signal has arrived, starts no request.
NoNewConnection ==
    phase \in {"shutdown", "exited"} => \A r \in Reqs : pc[r] = "free" => pc'[r] = "free"

\* C7: after an interrupt or termination signal no new connection is
\* accepted; every request in flight at the signal completes or is
\* terminated within ServerShutdownTimeoutSec; the process then exits 0,
\* after logging "Server exited", if the in-flight requests drained in the
\* window, and non-zero if the window elapsed first.
C7_ShutdownProtocol ==
    /\ [][NoNewConnection]_vars
    /\ [](Signalled =>
            /\ sinceSignal <= config.ServerShutdownTimeoutSec
            /\ phase \in {"shutdown", "exited"}
            /\ phase = "exited" =>
                  /\ exitCode \in {0, 1}
                  /\ \A r \in Reqs : atSignal[r] = "upstream" => Ended(r)
                  /\ exitCode = 0 =>
                        /\ serverLog[Len(serverLog)] = "Server exited"
                        /\ \A r \in Reqs : pc[r] \in {"free", "done", "panicked"}
                  /\ exitCode = 1 =>
                        /\ sinceSignal = config.ServerShutdownTimeoutSec
                        /\ \E r \in Reqs : atSignal[r] = "upstream" /\ pc[r] = "killed"
                        /\ \A i \in DOMAIN serverLog : serverLog[i] # "Server exited")

C7_Witness ==
    /\ phase = "exited"
    /\ exitCode = 0
    /\ sinceSignal >= 1
    /\ \E r \in Reqs : atSignal[r] = "upstream" /\ pc[r] = "done"

\* C10 as stated: process shutdown cancels the per-request deadline of every
\* in-flight request, whose upstream call is aborted promptly, without
\* waiting for its own ExternalAPITimeoutSec - a second after the signal no
\* call that was in flight at the signal is still in flight - and client
\* disconnect and the handler's own timeout fail the request with 503.
C10_ShutdownCancelsInFlight ==
    \A r \in Reqs :
        /\ (atSignal[r] = "upstream" /\ sinceSignal >= 1) => pc[r] # "upstream"
        /\ abort[r] \in {"ctx_canceled", "ctx_deadline"} => rw[r].status = 503

\* The step that receives the signal changes no request.
SignalCancelsNothing ==
    (phase # "shutdown" /\ phase' = "shutdown") =>
        (pc' = pc /\ abort' = abort /\ elapsed' = elapsed /\ result' = result /\ rw' = rw)

\* C10 as amended: client disconnect and the handler's own timeout cancel
\* the per-request deadline, abort the in-flight upstream call and fail the
\* request with 503, and nothing else aborts it; the shutdown signal leaves
\* every in-flight request and its deadline as they are.
C10_CancellationSources ==
    /\ [](\A r \in Reqs :
            /\ abort[r] \in {"none", "ctx_canceled", "ctx_deadline"}
            /\ abort[r] # "none" =>
                  /\ upstream[r].kind = "transport_error"
                  /\ result[r].kind = "error"
                  /\ Responded(r, 503, ErrorPayload("Unable to fetch weather data", <<>>)))
    /\ [][SignalCancelsNothing]_vars

C10_Witness ==
    \E r \in Reqs :
        /\ atSignal[r] = "upstream"
        /\ sinceSignal >= 1
        /\ elapsed[r] >= 1
        /\ abort[r] = "ctx_deadline"
        /\ rw[r].status = 503

\* The write of the JSON payload of r failed: json.NewEncoder(w).Encode
\* returned an error in sendJSONResponse.
EncodeFailed(r) ==
    /\ pc[r] = "done"
    /\ Len(rw[r].writes) >= 1
    /\ rw[r].writes[1].chunk.kind = "json"
    /\ ~rw[r].writes[1].ok

\* C11: when serializing the response body fails in the handler, for a
\* success or an error payload, the status the caller observes is 500, not
\* the status the handler had selected before the encode step, and the body
\* is the plain text "Internal server error".
C11_EncodeFailureIs500 ==
    \A r \in Started :
        EncodeFailed(r) =>
            /\ rw[r].status = 500
            /\ rw[r].contentType = "text/plain; charset=utf-8"
            /\ Len(rw[r].writes) = 2
            /\ rw[r].writes[2].chunk = Text("Internal server error")
            /\ rw[r].writes[2].ok => Body(rw[r]) = <<Text("Internal server error")>>

\* The upstream answered r with a body that json.Unmarshal accepts.
ParsedBody(r) ==
    /\ upstream[r].kind = "response"
    /\ Unmarshal(upstream[r].body).ok

\* C12: in OpenWeatherMapService.GetWeather the cod of the parsed body
\* alone decides between success and the upstream-status error, whatever
\* the HTTP status.  A parsed body whose cod is not 200 (401, 429, or no
\* cod member, which reads as 0) yields the error that carries the code and
\* the message, and the caller is answered the opaque 503; a parsed body
\* whose cod is 200 never yields that error and, when it has an
\* observation, is served with 200 even if the HTTP status is not 2xx.
C12_CodIsAuthoritative ==
    \A r \in Started :
        ParsedBody(r) =>
            LET m == Unmarshal(upstream[r].body).v
            IN  IF m.HttpCode # 200
                THEN /\ result[r].kind = "error"
                     /\ result[r].err.text = "OpenWeatherMap API error (code %d): %s"
                     /\ result[r].err.arg = <<m.HttpCode, m.Message>>
                     /\ Responded(r, 503, ErrorPayload("Unable to fetch weather data", <<>>))
                ELSE /\ result[r].kind # "error"
                     /\ Len(m.Weather) > 0 =>
                            /\ result[r].kind = "data"
                            /\ result[r].data.Condition = m.Weather[1]
                            /\ rw[r].status = 200

\* The HTTP status and the cod disagree, and the cod won: HTTP 200 with
\* cod 404 was answered 503.
C12_Witness ==
    \E r \in Started :
        /\ ParsedBody(r)
        /\ upstream[r].status = 200
        /\ Unmarshal(upstream[r].body).v.HttpCode = 404
        /\ result[r].kind = "error"
        /\ result[r].err.arg = <<404, "city not found">>
        /\ rw[r].status = 503

\* HTTP 500 with cod 200 was served as a success.
C12_SuccessDespiteHttpStatus ==
    \E r \in Started :
        /\ ParsedBody(r)
        /\ upstream[r].status = 500
        /\ Unmarshal(upstream[r].body).v.HttpCode = 200
        /\ result[r].kind = "data"
        /\ rw[r].status = 200

====
